---- MODULE Spec2Model ----
(***************************************************************************)
(* Model of the population simulation engine of src/main.py:               *)
(* RandomEventType descriptors and the PopulationSimulator (weekly tick,   *)
(* single-active-event scheduler, threshold-crossing detector).            *)
(*                                                                         *)
(* Floats are modelled as fixed-point integers with SCALE units per 1.0    *)
(* (1.0 is SCALE, 0.01 is 1), products and quotients rounded to nearest.   *)
(* Python's None is the empty tuple <<>>; the tuple (event_obj, weeks)     *)
(* is the 2-tuple <<event_obj, weeks_left>>.  The random module is the     *)
(* only source of nondeterminism inside a tick: random.random(),           *)
(* random.randint() and random.normalvariate() are drawn with \E.          *)
(***************************************************************************)
EXTENDS Integers, Sequences, FiniteSets, TLC

(***************************************************************************)
(* Bounds and fixed-point arithmetic                                       *)
(***************************************************************************)
MaxWeeks == 3
RandintSpan == 2

SCALE == 10 * 10

Max(a, b) == IF b > a THEN b ELSE a

RDiv(n, d) == (2 * n + d) \div (2 * d)

Mul(a, b) == RDiv(a * b, SCALE)

Div(a, b) == RDiv(a * SCALE, b)

RECURSIVE Pow(_, _)
Pow(x, e) == IF e = 0 THEN SCALE ELSE Mul(x, Pow(x, e - 1))

\* The largest finite float of the model.  The float format of the source
\* reaches 1.8e308; the model keeps the format's behaviour (x ** y raises
\* OverflowError when the result exceeds the largest float) with a range that
\* fits the integers of the model, so ** overflows at smaller magnitudes here.
FLOAT_MAX == 10 * 10 * 10 * 10 * 10 * SCALE

\* x ** e for x >= 0, or FLOAT_MAX + 1 when the result exceeds FLOAT_MAX
RECURSIVE PowCapped(_, _)
PowCapped(x, e) ==
    IF e = 0 THEN SCALE
    ELSE LET r == PowCapped(x, e - 1)
         IN  IF r > FLOAT_MAX THEN r
             ELSE IF x = 0 THEN 0
             ELSE IF r > (FLOAT_MAX * SCALE) \div x THEN FLOAT_MAX + 1
             ELSE Mul(x, r)

\* float.__pow__ raises OverflowError (34, 'Numerical result out of range')
PowRaises(x, e) == PowCapped(x, e) > FLOAT_MAX

\* float(n) of a Python int n
Float(n) == n * SCALE

(***************************************************************************)
(* Inputs: event descriptors, configurations, arguments, random draws      *)
(***************************************************************************)
RandomEventType(name, p, lo, hi, b, d, k) ==
    [name |-> name, occurrence_probability |-> p,
     min_duration_weeks |-> lo, max_duration_weeks |-> hi,
     birth_factor_impact |-> b, death_factor_impact |-> d,
     k_factor_impact |-> k]

Boom == RandomEventType("Boom", SCALE, 1, 2, 150, SCALE, 120)
Plague == RandomEventType("Plague", 50, 2, 3, 80, 200, 0)

Config(b, d, be, de, s, k, evs) ==
    [base_birth_rate_per_capita |-> b, base_death_rate_per_capita |-> d,
     birth_density_exponent |-> be, death_density_exponent |-> de,
     stochasticity_factor |-> s, base_carrying_capacity |-> k,
     possible_random_events |-> evs]

\* the constructor calls explored: a configuration with the initial
\* populations it is started from
Scenarios ==
    { [cfg |-> Config(1, 1, 1, 1, 0, 100 * SCALE, <<>>),
       pops |-> { 100 * SCALE }],
      [cfg |-> Config(0, 0, 1, 1, 1, 100 * SCALE, <<>>),
       pops |-> { 140 * SCALE, 149 * SCALE, 152 * SCALE }],
      [cfg |-> Config(7, 2, 2, 1, 0, 100 * SCALE, <<Boom>>),
       pops |-> { 50 * SCALE }],
      [cfg |-> Config(7, 2, 1, 1, 0, 100 * SCALE, <<Plague, Boom>>),
       pops |-> { 100 * SCALE }],
      [cfg |-> Config(7, 2, 1, 1, 1, 100 * SCALE, <<Plague>>),
       pops |-> { -5 * SCALE, 0 }],
      [cfg |-> Config(7, 2, 1, 3, 0, 100 * SCALE, <<Boom>>),
       pops |-> { 100 * SCALE }] }

\* constructor calls with arguments the constructors reject
BadProbabilityHigh == RandomEventType("BadProbabilityHigh", SCALE + 1, 1, 2, SCALE, SCALE, SCALE)
BadProbabilityLow == RandomEventType("BadProbabilityLow", -1, 1, 2, SCALE, SCALE, SCALE)
BadMinDuration == RandomEventType("BadMinDuration", 50, 0, 2, SCALE, SCALE, SCALE)
BadDurationOrder == RandomEventType("BadDurationOrder", 50, 2, 1, SCALE, SCALE, SCALE)

InvalidScenarios ==
    { [cfg |-> Config(1, 1, 1, 1, 0, 100 * SCALE, << Boom, e >>), pops |-> { 100 * SCALE }] :
         e \in { BadProbabilityHigh, BadProbabilityLow, BadMinDuration, BadDurationOrder } }
    \cup
    { [cfg |-> Config(1, 1, 1, 1, 0, k, << Boom >>), pops |-> { 100 * SCALE }] :
         k \in { 0, -100 * SCALE } }

\* one entry of a thresholds list: the value with its Python type, two labels
Threshold(ty, v, r, f) == [type |-> ty, t_val |-> v, t_name_rise |-> r, t_name_fall |-> f]

ThresholdsSingle == << Threshold("float", 150 * SCALE, "R", "F") >>

ThresholdsMixed ==
    << Threshold("int", 150, "R150", "F150"),
       Threshold("str", 0, "Rbad", "Fbad"),
       Threshold("float", 50 * SCALE, "R50", "F50"),
       Threshold("float", 150 * SCALE, "R150b", "F150b") >>

\* one label for both directions
ThresholdsShared == << Threshold("float", 145 * SCALE, "X", "X") >>

ThresholdArgs == { ThresholdsSingle, ThresholdsMixed, ThresholdsShared }

\* arguments of set_environmental_factors: <<>> is None, <<v>> is the value v
EnvArgs ==
    { << <<200>>, <<>>, <<>> >>,
      << <<>>, <<50>>, <<-SCALE>> >> }

\* random.random() is in [0, 1)
UniformDraws == { 0, SCALE \div 2, SCALE - 1 }

\* random.randint(a, b) is a + (r % (b - a + 1)) for a raw draw r
RandintDraws == 0 .. (RandintSpan - 1)

\* random.normalvariate(0, std_dev) with std_dev > 0: any real
NormalDraws == { -1000 * SCALE, -2 * SCALE, 2 * SCALE, 5 * SCALE }

(***************************************************************************)
(* State                                                                   *)
(***************************************************************************)
VARIABLES
    initial_population,          \* constructor argument
    params,                      \* base_K, b_base, d_base, exponents, S_factor, _possible_random_events
    P_current,
    E_factors,                   \* <<_E_birth_factor, _E_death_factor, _E_k_factor>>
    thresholds,                  \* _thresholds
    thresholds_list,             \* argument of the last set_thresholds call
    week_count,
    active_random_event_details, \* _active_random_event_details
    emitted,                     \* per threshold of the constructor's list, the branch
                                 \* (line 284 or 286) that last appended its label
    random_event_history,
    last,                        \* locals and return value of the last advance_one_week
    construction                 \* "ok", or the exception the constructors raised

vars == << initial_population, params, P_current, E_factors, thresholds,
           thresholds_list, week_count, active_random_event_details,
           random_event_history, last, construction, emitted >>

base_K == params.base_carrying_capacity
b_base == params.base_birth_rate_per_capita
d_base == params.base_death_rate_per_capita
S_factor == params.stochasticity_factor
possible_random_events == params.possible_random_events

(***************************************************************************)
(* PopulationSimulator.set_thresholds                                      *)
(***************************************************************************)
\* isinstance(t_val, (int, float)) and isinstance(names, str); labels are
\* strings in every entry of the model, the value's type varies
ValidThreshold(t) == t.type \in {"int", "float"}

\* the tuple appended to _thresholds: (float(t_val), t_name_rise, t_name_fall)
StoredThreshold(t) ==
    [value |-> IF t.type = "int" THEN Float(t.t_val) ELSE t.t_val,
     name_rising |-> t.t_name_rise, name_falling |-> t.t_name_fall]

RECURSIVE AppendUntilInvalid(_)
AppendUntilInvalid(lst) ==
    IF lst = <<>> THEN <<>>
    ELSE IF ValidThreshold(Head(lst))
         THEN <<StoredThreshold(Head(lst))>> \o AppendUntilInvalid(Tail(lst))
         ELSE <<>>

\* the loop of set_thresholds: valid entries in argument order
RECURSIVE AppendValid(_)
AppendValid(lst) ==
    IF lst = <<>> THEN <<>>
    ELSE IF ValidThreshold(Head(lst))
         THEN <<StoredThreshold(Head(lst))>> \o AppendValid(Tail(lst))
         ELSE AppendValid(Tail(lst))

\* list.sort(key=lambda x: x[0]) is stable: an element goes after every
\* element whose key is <= its own
RECURSIVE InsertByValue(_, _)
InsertByValue(sorted, t) ==
    IF sorted = <<>> THEN <<t>>
    ELSE IF Head(sorted).value <= t.value
         THEN <<Head(sorted)>> \o InsertByValue(Tail(sorted), t)
         ELSE <<t>> \o sorted

SortNoneStable(lst) == lst

RECURSIVE SortByValue(_)
SortByValue(lst) ==
    IF lst = <<>> THEN <<>>
    ELSE InsertByValue(SortByValue(SubSeq(lst, 1, Len(lst) - 1)), lst[Len(lst)])

SetThresholds(lst) == SortByValue(AppendValid(lst))

(***************************************************************************)
(* PopulationSimulator._get_combined_factors and the capacity queries      *)
(***************************************************************************)
GetCombinedFactorsIgnoringEvent(E, details) == E

\* lines 246-256: the manual multipliers, each times the active event's impact
GetCombinedFactors(E, details) ==
    IF details # <<>>
    THEN << Mul(E[1], details[1].birth_factor_impact),
            Mul(E[2], details[1].death_factor_impact),
            Mul(E[3], details[1].k_factor_impact) >>
    ELSE E

\* current_K of _calculate_weekly_change, lines 153-154
CurrentK(E, details) ==
    LET k == Mul(base_K, GetCombinedFactors(E, details)[3])
    IN  IF k <= 0 THEN SCALE ELSE k

get_current_carrying_capacity ==
    Mul(base_K, GetCombinedFactors(E_factors, active_random_event_details)[3])

\* get_simulation_parameters()["effective_carrying_capacity"]
snapshot_effective_carrying_capacity ==
    LET eff == GetCombinedFactors(E_factors, active_random_event_details)
    IN  Mul(base_K, eff[3])

\* get_simulation_parameters()["active_combined_*_factor"]
snapshot_active_combined ==
    GetCombinedFactors(E_factors, active_random_event_details)

get_population == P_current

get_week_count == week_count

get_active_random_event ==
    IF active_random_event_details # <<>>
    THEN << active_random_event_details[1].name, active_random_event_details[2] >>
    ELSE <<>>

(***************************************************************************)
(* PopulationSimulator._calculate_weekly_change                            *)
(***************************************************************************)
DensityBirthModifierUnguarded(calc_pop, current_K) ==
    Pow(SCALE - Div(calc_pop, current_K), params.birth_density_exponent)

\* lines 156-160: zero unless the base term is positive
DensityBirthModifier(calc_pop, current_K) ==
    LET base_birth_density_term == SCALE - Div(calc_pop, current_K)
        m == IF base_birth_density_term > 0
             THEN Pow(base_birth_density_term, params.birth_density_exponent)
             ELSE 0
    IN  Max(0, m)

DensityDeathModifierNoBase(calc_pop, current_K) ==
    Pow(Div(calc_pop, current_K), params.death_density_exponent)

DensityDeathModifier(calc_pop, current_K) ==
    SCALE + Pow(Div(calc_pop, current_K), params.death_density_exponent)

\* the draw is made only under the three guards of lines 175-177
NoiseDrawnUnguarded(calc_pop) == S_factor > 0

NoiseDrawn(calc_pop) ==
    S_factor > 0 /\ calc_pop > 0 /\ Mul(S_factor, calc_pop) > 0

\* lines 159 and 166: the two ** of the method; the first is evaluated only
\* when its base is > 0
WeeklyChangeRaises(calc_pop, current_K) ==
    \/ /\ SCALE - Div(calc_pop, current_K) > 0
       /\ PowRaises(SCALE - Div(calc_pop, current_K), params.birth_density_exponent)
    \/ PowRaises(Div(calc_pop, current_K), params.death_density_exponent)

EarlyReturn ==
    [raised |-> "", early_return |-> TRUE, combined |-> <<0, 0, 0>>, current_K |-> 0,
     density_birth_modifier |-> 0, density_death_modifier |-> 0,
     b_eff |-> 0, d_eff |-> 0, delta_P_det |-> 0,
     n_normalvariate |-> 0, delta_P_stoch |-> 0, result |-> 0]

\* the locals of one call; noise is the value random.normalvariate would give
CalculateWeeklyChangeNoGuard(P, E, details, noise) ==
    LET calc_pop == Max(0, P)
        combined == GetCombinedFactors(E, details)
        current_K == CurrentK(E, details)
        bmod == DensityBirthModifier(calc_pop, current_K)
        b_eff == Max(0, Mul(Mul(b_base, bmod), combined[1]))
        dmod == DensityDeathModifier(calc_pop, current_K)
        d_eff == Max(0, Mul(Mul(d_base, dmod), combined[2]))
        delta_P_det == Mul(calc_pop, b_eff) - Mul(calc_pop, d_eff)
        drawn == NoiseDrawnUnguarded(calc_pop)
        delta_P_stoch == IF drawn THEN noise ELSE 0
    IN  IF WeeklyChangeRaises(calc_pop, current_K)
        THEN IF /\ SCALE - Div(calc_pop, current_K) > 0
                /\ PowRaises(SCALE - Div(calc_pop, current_K),
                             params.birth_density_exponent)
             THEN [EarlyReturn EXCEPT !.raised = "OverflowError",
                                      !.early_return = FALSE,
                                      !.combined = combined, !.current_K = current_K]
             ELSE [EarlyReturn EXCEPT !.raised = "OverflowError",
                                      !.early_return = FALSE,
                                      !.combined = combined, !.current_K = current_K,
                                      !.density_birth_modifier = bmod,
                                      !.b_eff = b_eff]
        ELSE [raised |-> "", early_return |-> FALSE, combined |-> combined,
              current_K |-> current_K,
              density_birth_modifier |-> bmod, density_death_modifier |-> dmod,
              b_eff |-> b_eff, d_eff |-> d_eff, delta_P_det |-> delta_P_det,
              n_normalvariate |-> IF drawn THEN 1 ELSE 0,
              delta_P_stoch |-> delta_P_stoch,
              result |-> delta_P_det + delta_P_stoch]

\* raised is "" when the method returns result, or the exception it raises:
\* at line 159, before any rate is assigned, or at line 166, after b_eff
CalculateWeeklyChange(P, E, details, noise) ==
    LET calc_pop == Max(0, P)
        combined == GetCombinedFactors(E, details)
        current_K == CurrentK(E, details)
        bmod == DensityBirthModifier(calc_pop, current_K)
        b_eff == Max(0, Mul(Mul(b_base, bmod), combined[1]))
        dmod == DensityDeathModifier(calc_pop, current_K)
        d_eff == Max(0, Mul(Mul(d_base, dmod), combined[2]))
        delta_P_det == Mul(calc_pop, b_eff) - Mul(calc_pop, d_eff)
        drawn == NoiseDrawn(calc_pop)
        delta_P_stoch == IF drawn THEN noise ELSE 0
    IN  IF calc_pop = 0
        THEN EarlyReturn
        ELSE IF WeeklyChangeRaises(calc_pop, current_K)
        THEN IF /\ SCALE - Div(calc_pop, current_K) > 0
                /\ PowRaises(SCALE - Div(calc_pop, current_K),
                             params.birth_density_exponent)
             THEN [EarlyReturn EXCEPT !.raised = "OverflowError",
                                      !.early_return = FALSE,
                                      !.combined = combined, !.current_K = current_K]
             ELSE [EarlyReturn EXCEPT !.raised = "OverflowError",
                                      !.early_return = FALSE,
                                      !.combined = combined, !.current_K = current_K,
                                      !.density_birth_modifier = bmod,
                                      !.b_eff = b_eff]
        ELSE [raised |-> "", early_return |-> FALSE, combined |-> combined,
              current_K |-> current_K,
              density_birth_modifier |-> bmod, density_death_modifier |-> dmod,
              b_eff |-> b_eff, d_eff |-> d_eff, delta_P_det |-> delta_P_det,
              n_normalvariate |-> IF drawn THEN 1 ELSE 0,
              delta_P_stoch |-> delta_P_stoch,
              result |-> delta_P_det + delta_P_stoch]

(***************************************************************************)
(* PopulationSimulator._check_for_random_event                             *)
(***************************************************************************)
AgeNoDecrement(details) == details

AgeClearingEarly(details) ==
    IF details # <<>>
    THEN LET weeks_left == details[2] - 1
         IN  IF weeks_left <= 1 THEN <<>> ELSE << details[1], weeks_left >>
    ELSE <<>>

\* lines 221-227: the aging step
AgeActiveEvent(details) ==
    IF details # <<>>
    THEN LET weeks_left == details[2] - 1
         IN  IF weeks_left <= 0 THEN <<>> ELSE << details[1], weeks_left >>
    ELSE <<>>

TriggersUpperInclusive(u, p) == (SCALE - u) < p

\* line 231: random.random() < event_type.occurrence_probability
Triggers(u, p) == u < p

\* a loop without the break of line 244: the last descriptor that triggers
RECURSIVE LastTriggered(_, _, _)
LastTriggered(events, us, i) ==
    IF i > Len(events) THEN 0
    ELSE LET later == LastTriggered(events, us, i + 1)
         IN  IF later # 0 THEN later
             ELSE IF us[i] < events[i].occurrence_probability THEN i ELSE 0

\* the for loop of lines 230-244: index of the first descriptor whose draw
\* succeeds, 0 if none; us[i] is the draw made for descriptor i if reached
RECURSIVE FirstTriggered(_, _, _)
FirstTriggered(events, us, i) ==
    IF i > Len(events) THEN 0
    ELSE IF Triggers(us[i], events[i].occurrence_probability) THEN i
         ELSE FirstTriggered(events, us, i + 1)

RandintFromZero(lo, hi, r) == r % (hi + 1)

\* line 232: random.randint(min, max) from a raw draw r
Randint(lo, hi, r) == lo + (r % (hi - lo + 1))

SelectsAlways(aged, events) == events # <<>>

\* line 229: the selection runs only when idle after aging
Selects(aged, events) == aged = <<>> /\ events # <<>>

HistoryRecordBeforeIncrement(event_type, week, duration) ==
    [name |-> event_type.name, start_week |-> week - 1, end_week |-> week - 1 + duration,
     impacts |-> [birth |-> event_type.birth_factor_impact,
                  death |-> event_type.death_factor_impact,
                  k |-> event_type.k_factor_impact]]

\* lines 236-243: the record appended to random_event_history
HistoryRecord(event_type, week, duration) ==
    [name |-> event_type.name, start_week |-> week, end_week |-> week + duration,
     impacts |-> [birth |-> event_type.birth_factor_impact,
                  death |-> event_type.death_factor_impact,
                  k |-> event_type.k_factor_impact]]

RecordOnlyLatest(history, record) == << record >>

\* line 236: random_event_history.append
AppendRecord(history, record) == Append(history, record)

\* selection only in a tick that starts with no instance
CheckForRandomEventNoSuccession(details, history, events, week, us, r) ==
    LET aged == AgeActiveEvent(details)
        sel == IF details = <<>> /\ Selects(aged, events)
               THEN FirstTriggered(events, us, 1) ELSE 0
        duration == IF sel = 0 THEN 0
                    ELSE Randint(events[sel].min_duration_weeks,
                                 events[sel].max_duration_weeks, r)
        n_random == IF details = <<>> /\ Selects(aged, events)
                    THEN (IF sel = 0 THEN Len(events) ELSE sel) ELSE 0
    IN  [aged |-> aged,
         selected |-> sel,
         n_random |-> n_random,
         draws |-> SubSeq(us, 1, n_random),
         n_randint |-> IF sel = 0 THEN 0 ELSE 1,
         details |-> IF sel = 0 THEN aged ELSE << events[sel], duration >>,
         history |-> IF sel = 0 THEN history
                     ELSE AppendRecord(history,
                                       HistoryRecord(events[sel], week, duration))]

\* the whole method; week is self.week_count (already incremented)
CheckForRandomEvent(details, history, events, week, us, r) ==
    LET aged == AgeActiveEvent(details)
        sel == IF Selects(aged, events) THEN FirstTriggered(events, us, 1) ELSE 0
        duration == IF sel = 0 THEN 0
                    ELSE Randint(events[sel].min_duration_weeks,
                                 events[sel].max_duration_weeks, r)
        n_random == IF Selects(aged, events)
                    THEN (IF sel = 0 THEN Len(events) ELSE sel) ELSE 0
    IN  [aged |-> aged,
         selected |-> sel,
         n_random |-> n_random,
         draws |-> SubSeq(us, 1, n_random),
         n_randint |-> IF sel = 0 THEN 0 ELSE 1,
         details |-> IF sel = 0 THEN aged ELSE << events[sel], duration >>,
         history |-> IF sel = 0 THEN history
                     ELSE AppendRecord(history,
                                       HistoryRecord(events[sel], week, duration))]

(***************************************************************************)
(* PopulationSimulator.advance_one_week: threshold detection               *)
(***************************************************************************)
CrossingInclusiveBelow(value, P_previous, P_now) ==
    IF P_previous <= value /\ value <= P_now THEN "rising"
    ELSE IF P_previous >= value /\ value > P_now THEN "falling"
    ELSE "none"

CrossingInclusiveAbove(value, P_previous, P_now) ==
    IF P_previous < value /\ value <= P_now THEN "rising"
    ELSE IF P_previous >= value /\ value >= P_now THEN "falling"
    ELSE "none"

\* lines 283-286
Crossing(value, P_previous, P_now) ==
    IF P_previous < value /\ value <= P_now THEN "rising"
    ELSE IF P_previous >= value /\ value > P_now THEN "falling"
    ELSE "none"

\* the loop of lines 282-286 over thresholds i..end: the labels appended,
\* each with the index of the threshold that appended it and the branch
\* (line 284 or line 286) that did
RECURSIVE Triggered(_, _, _, _)
Triggered(ths, i, P_previous, P_now) ==
    IF i > Len(ths) THEN <<>>
    ELSE LET c == Crossing(ths[i].value, P_previous, P_now)
             rest == Triggered(ths, i + 1, P_previous, P_now)
         IN  IF c = "rising"
             THEN << [label |-> ths[i].name_rising, by |-> i, dir |-> c] >> \o rest
             ELSE IF c = "falling"
                  THEN << [label |-> ths[i].name_falling, by |-> i, dir |-> c] >> \o rest
                  ELSE rest

Labels(tr) == [j \in 1 .. Len(tr) |-> tr[j].label]

ClampNone(P_new) == P_new

\* line 279
ClampPopulation(P_new) == Max(0, P_new)

(***************************************************************************)
(* Construction                                                            *)
(***************************************************************************)
NoTick ==
    [ticked |-> FALSE, raised |-> "", P_previous |-> 0, details_before |-> <<>>,
     E_factors |-> <<SCALE, SCALE, SCALE>>, thresholds |-> <<>>,
     history_before |-> <<>>,
     sched |-> [aged |-> <<>>, selected |-> 0, n_random |-> 0, draws |-> <<>>,
                n_randint |-> 0,
                details |-> <<>>, history |-> <<>>],
     calc |-> EarlyReturn,
     P_new |-> 0, returned_P |-> 0, triggered |-> <<>>, triggered_events |-> <<>>]

RaisesIgnoringDurationOrder(e) ==
    \/ ~(0 <= e.occurrence_probability /\ e.occurrence_probability <= SCALE)
    \/ ~(e.min_duration_weeks > 0)

\* RandomEventType.__init__, lines 48-51
RandomEventTypeRaises(e) ==
    \/ ~(0 <= e.occurrence_probability /\ e.occurrence_probability <= SCALE)
    \/ ~(e.min_duration_weeks > 0 /\ e.max_duration_weeks >= e.min_duration_weeks)

\* PopulationSimulator.__init__, line 125
SimulatorRaises(base_carrying_capacity) == ~(base_carrying_capacity > 0)

\* the descriptors are constructed first, then the simulator; the first
\* ValueError ends the construction and leaves no simulator to call
ConstructionRaises(cfg) ==
    \/ \E i \in 1 .. Len(cfg.possible_random_events) :
          RandomEventTypeRaises(cfg.possible_random_events[i])
    \/ SimulatorRaises(cfg.base_carrying_capacity)

\* RandomEventType.__init__ for each descriptor, then PopulationSimulator.__init__
Init ==
    /\ \E sc \in Scenarios \cup InvalidScenarios :
          /\ params = sc.cfg
          /\ initial_population \in sc.pops
    /\ P_current = Max(0, initial_population)
    /\ E_factors = << SCALE, SCALE, SCALE >>
    /\ thresholds_list \in { <<>>, ThresholdsMixed }
    /\ thresholds = IF thresholds_list # <<>> THEN SetThresholds(thresholds_list) ELSE <<>>
    /\ week_count = 0
    /\ active_random_event_details = <<>>
    /\ random_event_history = <<>>
    /\ last = NoTick
    /\ construction = IF ConstructionRaises(params) THEN "ValueError" ELSE "ok"
    /\ emitted = [i \in 1 .. Len(thresholds) |-> "none"]

(***************************************************************************)
(* Operations                                                              *)
(***************************************************************************)
IncrementWeekTwice(w) == w + 2

\* line 272: self.week_count += 1
IncrementWeek(w) == w + 1

\* lines 282-286 seen per threshold: the branch each threshold of the
\* constructor's list took last; <<>> once set_thresholds replaced that list
Emit(em, triggered) ==
    [i \in 1 .. Len(em) |->
        IF \E j \in 1 .. Len(triggered) : triggered[j].by = i
        THEN triggered[CHOOSE j \in 1 .. Len(triggered) : triggered[j].by = i].dir
        ELSE em[i]]

\* line 276 raised: lines 272-274 have been applied, lines 278-288 have not
\* run, and the call returns nothing
RaisedTick(P_previous, sched, calc) ==
    [NoTick EXCEPT !.raised = calc.raised, !.P_previous = P_previous,
                   !.details_before = active_random_event_details,
                   !.E_factors = E_factors, !.thresholds = thresholds,
                   !.history_before = random_event_history,
                   !.sched = sched, !.calc = calc, !.returned_P = P_previous]

\* the draws are made where the code makes them: one random.random() per
\* descriptor examined, when the selection runs; random.randint when a
\* descriptor triggers; random.normalvariate when _calculate_weekly_change
\* reaches line 178
advance_one_week ==
    /\ construction = "ok"
    /\ week_count < MaxWeeks
    /\ LET week == IncrementWeek(week_count)
           P_previous == P_current
           events == possible_random_events
           selects == Selects(AgeActiveEvent(active_random_event_details), events)
       IN  \E us \in (IF selects THEN [1 .. Len(events) -> UniformDraws] ELSE { <<>> }) :
           \E r \in (IF selects /\ FirstTriggered(events, us, 1) # 0
                     THEN RandintDraws ELSE { 0 }) :
             LET sched == CheckForRandomEvent(active_random_event_details,
                                              random_event_history, events, week, us, r)
                 draws == CalculateWeeklyChange(P_current, E_factors, sched.details, 0)
                             .n_normalvariate > 0
             IN  \E noise \in (IF draws THEN NormalDraws ELSE { 0 }) :
                   LET calc == CalculateWeeklyChange(P_current, E_factors,
                                                     sched.details, noise)
                       P_new == P_previous + calc.result
                       P_now == ClampPopulation(P_new)
                       triggered == Triggered(thresholds, 1, P_previous, P_now)
                   IN  /\ week_count' = week
                       /\ active_random_event_details' = sched.details
                       /\ random_event_history' = sched.history
                       /\ IF calc.raised # ""
                          THEN /\ P_current' = P_current
                               /\ emitted' = emitted
                               /\ last' = RaisedTick(P_previous, sched, calc)
                          ELSE /\ P_current' = P_now
                               /\ emitted' = Emit(emitted, triggered)
                               /\ last' = [ticked |-> TRUE, raised |-> "",
                                           P_previous |-> P_previous,
                                           details_before |-> active_random_event_details,
                                           E_factors |-> E_factors,
                                           thresholds |-> thresholds,
                                           history_before |-> random_event_history,
                                           sched |-> sched, calc |-> calc,
                                           P_new |-> P_new, returned_P |-> P_now,
                                           triggered |-> triggered,
                                           triggered_events |-> Labels(triggered)]
    /\ UNCHANGED << initial_population, params, E_factors, thresholds, thresholds_list,
                    construction >>

SetFactorsResettingOmitted(E, args) ==
    [i \in 1 .. 3 |-> IF args[i] # <<>> THEN args[i][1] ELSE SCALE]

\* lines 216-218: each argument that is not None replaces its multiplier
SetFactors(E, args) ==
    [i \in 1 .. 3 |-> IF args[i] # <<>> THEN args[i][1] ELSE E[i]]

set_environmental_factors ==
    /\ construction = "ok"
    /\ \E args \in EnvArgs : E_factors' = SetFactors(E_factors, args)
    /\ UNCHANGED << initial_population, params, P_current, thresholds, thresholds_list,
                    week_count, active_random_event_details, random_event_history, last,
                    construction, emitted >>

set_thresholds ==
    /\ construction = "ok"
    /\ \E lst \in ThresholdArgs :
         /\ thresholds_list' = lst
         /\ thresholds' = SetThresholds(lst)
         /\ emitted' = <<>>
    /\ UNCHANGED << initial_population, params, P_current, E_factors, week_count,
                    active_random_event_details, random_event_history, last,
                    construction >>

Next == advance_one_week \/ set_environmental_factors \/ set_thresholds

Spec == Init /\ [][Next]_vars

(***************************************************************************)
(* Properties                                                              *)
(***************************************************************************)
Ticks == week_count' = week_count + 1

One == << SCALE, SCALE, SCALE >>

\* C1: in every reachable state the current population is >= 0, whatever the
\* initial population and whatever the delta of a tick; get_population and the
\* value a tick returns are >= 0.
C1_PopulationNonNegative ==
    /\ P_current >= 0
    /\ get_population >= 0
    /\ last.ticked => last.returned_P >= 0

\* a tick whose delta took the raw result below zero, clamped to 0
C1_Witness ==
    /\ last.ticked
    /\ last.P_previous > 0
    /\ last.P_new < 0
    /\ P_current = 0

\* C2: zero is absorbing: from population 0 every operation leaves it 0, and
\* a tick at population 0 computes delta exactly 0 and draws no noise.
C2_ZeroAbsorbing ==
    [][P_current = 0 =>
         /\ P_current' = 0
         /\ Ticks => /\ last'.calc.result = 0
                     /\ last'.calc.n_normalvariate = 0]_vars

\* a tick at population 0 with noise configured, an event active during the
\* tick and manual multipliers away from 1.0
C2_Witness ==
    /\ last.ticked
    /\ last.P_previous = 0
    /\ P_current = 0
    /\ S_factor > 0
    /\ last.sched.details # <<>>
    /\ last.E_factors # One

\* C3: events never overlap: the active slot holds no instance or exactly one;
\* a descriptor is selected in a tick only if no event is active after the
\* aging step; an instance that starts a tick with remaining duration >= 2 is
\* kept (not replaced), no descriptor is evaluated and no history record is
\* appended in that tick.
C3_NoOverlap ==
    [][Ticks =>
         /\ Len(active_random_event_details') \in {0, 2}
         /\ last'.sched.selected # 0 => last'.sched.aged = <<>>
         /\ (active_random_event_details # <<>> /\ active_random_event_details[2] >= 2) =>
               /\ active_random_event_details' =
                     << active_random_event_details[1], active_random_event_details[2] - 1 >>
               /\ random_event_history' = random_event_history
               /\ last'.sched.n_random = 0
               /\ last'.sched.selected = 0]_vars

\* a tick that started with an instance of remaining duration >= 2 while a
\* descriptor of probability 1.0 is registered
C3_Witness ==
    /\ last.ticked
    /\ last.details_before # <<>>
    /\ last.details_before[2] >= 2
    /\ \E i \in 1 .. Len(possible_random_events) :
          possible_random_events[i].occurrence_probability = SCALE
    /\ active_random_event_details # <<>>

\* C4: the remaining duration of an active instance strictly decreases each
\* tick: from r >= 2 the same instance has r - 1 after the tick, from r = 1 it
\* has been cleared by the aging step (any instance active afterwards is a new
\* one, with its own history record); an instance never keeps or grows its
\* remaining duration across a tick.
C4_DurationDecreases ==
    [][(Ticks /\ active_random_event_details # <<>>) =>
         IF active_random_event_details[2] >= 2
         THEN /\ active_random_event_details' =
                    << active_random_event_details[1], active_random_event_details[2] - 1 >>
              /\ random_event_history' = random_event_history
         ELSE /\ last'.sched.aged = <<>>
              /\ \/ active_random_event_details' = <<>>
                 \/ Len(random_event_history') = Len(random_event_history) + 1]_vars

\* a tick that started with an instance of remaining duration 1
C4_Witness ==
    /\ last.ticked
    /\ last.details_before # <<>>
    /\ last.details_before[2] = 1
    /\ last.sched.aged = <<>>

Contributions(tr, i) == { j \in 1 .. Len(tr) : tr[j].by = i }

InSeq(x, seq) == \E j \in 1 .. Len(seq) : seq[j] = x

UniqueLabel(ths, l) ==
    Cardinality({ << i, d >> \in (1 .. Len(ths)) \X {"rising", "falling"} :
                     l = IF d = "rising" THEN ths[i].name_rising
                         ELSE ths[i].name_falling }) = 1

\* C5: threshold crossing rule: for the tick P0 -> P1 and each registered
\* threshold (v, R, F), the threshold contributes R exactly when P0 < v <= P1,
\* contributes F exactly when P0 >= v > P1, and nothing otherwise; at most one
\* label per threshold per tick, none when P0 = P1; the returned list is the
\* list of contributed labels, so a label that only this threshold and
\* direction carries is in the list exactly when its condition holds.
C5_ThresholdCrossing ==
    last.ticked =>
        LET P0 == last.P_previous
            P1 == last.returned_P
            ths == last.thresholds
            tr == last.triggered
        IN  /\ last.triggered_events = [j \in 1 .. Len(tr) |-> tr[j].label]
            /\ \A i \in 1 .. Len(ths) :
                  LET v == ths[i].value
                      mine == Contributions(tr, i)
                      rises == P0 < v /\ v <= P1
                      falls == P0 >= v /\ v > P1
                  IN  /\ Cardinality(mine) <= 1
                      /\ rises <=> \E j \in mine :
                                      tr[j].dir = "rising" /\ tr[j].label = ths[i].name_rising
                      /\ falls <=> \E j \in mine :
                                      tr[j].dir = "falling" /\ tr[j].label = ths[i].name_falling
                      /\ (~rises /\ ~falls) => mine = {}
                      /\ UniqueLabel(ths, ths[i].name_rising) =>
                            (rises <=> InSeq(ths[i].name_rising, last.triggered_events))
                      /\ UniqueLabel(ths, ths[i].name_falling) =>
                            (falls <=> InSeq(ths[i].name_falling, last.triggered_events))
            /\ P0 = P1 => last.triggered_events = <<>>
            /\ \A j \in 1 .. Len(tr) : tr[j].by \in 1 .. Len(ths)

\* the tick 149 -> 151 against the threshold (150, "R", "F")
C5_Witness ==
    /\ last.ticked
    /\ last.thresholds = SetThresholds(ThresholdsSingle)
    /\ last.P_previous = 149 * SCALE
    /\ last.returned_P = 151 * SCALE
    /\ last.triggered_events = << "R" >>

\* the tick 151 -> 149 against the same threshold
C5_WitnessFalling ==
    /\ last.ticked
    /\ last.thresholds = SetThresholds(ThresholdsSingle)
    /\ last.P_previous = 151 * SCALE
    /\ last.returned_P = 149 * SCALE
    /\ last.triggered_events = << "F" >>

\* the tick 140 -> 145 against the same threshold
C5_WitnessNone ==
    /\ last.ticked
    /\ last.thresholds = SetThresholds(ThresholdsSingle)
    /\ last.P_previous = 140 * SCALE
    /\ last.returned_P = 145 * SCALE
    /\ last.triggered_events = <<>>

PosIn(seq, x) == CHOOSE k \in 1 .. Len(seq) : seq[k] = x

Crossed(ths, P0, P1) ==
    { i \in 1 .. Len(ths) :
         \/ P0 < ths[i].value /\ ths[i].value <= P1
         \/ P0 >= ths[i].value /\ ths[i].value > P1 }

\* C6: the labels of one tick are ordered by ascending threshold value,
\* whatever the order of the list passed in: the stored list is ascending by
\* value with equal values in registration order, every crossed threshold
\* contributes its label, and the labels follow the stored order.
C6_LabelsAscending ==
    /\ \A i, j \in 1 .. Len(thresholds) :
          i < j =>
             /\ thresholds[i].value <= thresholds[j].value
             /\ thresholds[i].value = thresholds[j].value =>
                   PosIn(AppendValid(thresholds_list), thresholds[i])
                     < PosIn(AppendValid(thresholds_list), thresholds[j])
    /\ last.ticked =>
          LET ths == last.thresholds
              tr == last.triggered
          IN  /\ { tr[j].by : j \in 1 .. Len(tr) }
                    = Crossed(ths, last.P_previous, last.returned_P)
              /\ \A j, k \in 1 .. Len(tr) :
                    j < k => /\ tr[j].by < tr[k].by
                             /\ ths[tr[j].by].value <= ths[tr[k].by].value

\* a tick that crossed three thresholds registered out of order, two of them
\* with the same value
C6_Witness ==
    /\ last.ticked
    /\ thresholds_list = ThresholdsMixed
    /\ last.thresholds = thresholds
    /\ last.triggered_events = << "F50", "F150", "F150b" >>

\* C7: at capacity (b = d = 0.01, exponents 1, no noise, K = 100, no events,
\* manual multipliers 1.0, population 100) one tick computes birth modifier 0,
\* death modifier 2, effective death rate 0.02, delta -2, and leaves 98.
C7_Scenario ==
    /\ last.ticked
    /\ b_base = 1 /\ d_base = 1
    /\ params.birth_density_exponent = 1 /\ params.death_density_exponent = 1
    /\ S_factor = 0
    /\ base_K = 100 * SCALE
    /\ possible_random_events = <<>>
    /\ last.E_factors = One
    /\ last.P_previous = 100 * SCALE

C7_TickAtCapacity ==
    C7_Scenario =>
        /\ last.calc.density_birth_modifier = 0
        /\ last.calc.density_death_modifier = 2 * SCALE
        /\ last.calc.d_eff = 2
        /\ last.calc.result = -2 * SCALE
        /\ last.returned_P = 98 * SCALE

C7_Witness == C7_Scenario /\ P_current = 98 * SCALE

\* C8: with exactly one registered descriptor, of probability 1.0, every tick
\* in which the scheduler is idle after aging triggers it, whatever the draw:
\* it is active after the tick, and one history record for it is appended.
C8_CertainEvent ==
    (/\ Len(possible_random_events) = 1
     /\ possible_random_events[1].occurrence_probability = SCALE
     /\ last.ticked) =>
        /\ active_random_event_details # <<>>
        /\ active_random_event_details[1] = possible_random_events[1]
        /\ last.sched.aged = <<>> =>
              /\ last.sched.selected = 1
              /\ Len(last.sched.history) = Len(last.history_before) + 1
              /\ last.sched.history[Len(last.sched.history)].name
                    = possible_random_events[1].name
              /\ last.sched.history[Len(last.sched.history)].start_week = week_count
              /\ random_event_history = last.sched.history

\* the first tick of a simulator with the single certain descriptor
C8_Witness ==
    /\ Len(possible_random_events) = 1
    /\ possible_random_events[1].occurrence_probability = SCALE
    /\ week_count = 1
    /\ last.details_before = <<>>
    /\ active_random_event_details # <<>>
    /\ Len(random_event_history) = 1

\* C10: the effective carrying capacity is never <= 0: the value reported by
\* get_current_carrying_capacity and by the snapshot is > 0 and equals the
\* value the tick computation uses.
C10_CapacityPositive ==
    construction = "ok" =>
        /\ CurrentK(E_factors, active_random_event_details) > 0
        /\ get_current_carrying_capacity > 0
        /\ snapshot_effective_carrying_capacity > 0
        /\ get_current_carrying_capacity = CurrentK(E_factors, active_random_event_details)

\* C11: set_environmental_factors is a partial update with no other effect:
\* all three multipliers are 1.0 after construction; a step that changes the
\* multipliers is a call with some arguments, after which every supplied
\* multiplier has the supplied value and every omitted one its prior value,
\* and population, tick counter, active event, history and thresholds are
\* unchanged; no other operation changes the multipliers.
C11_PartialUpdate ==
    /\ E_factors = One
    /\ [][E_factors' # E_factors =>
            /\ \E args \in EnvArgs :
                  \A i \in 1 .. 3 :
                     E_factors'[i] = IF args[i] = <<>> THEN E_factors[i] ELSE args[i][1]
            /\ UNCHANGED << P_current, week_count, active_random_event_details,
                            random_event_history, thresholds >>]_vars

\* after a tick with an event active and a non-empty history, a call that
\* supplied the birth multiplier only: death and capacity keep the values of
\* an earlier call
C11_Witness ==
    /\ last.ticked
    /\ last.E_factors = << SCALE, 50, -SCALE >>
    /\ E_factors = << 200, 50, -SCALE >>
    /\ active_random_event_details # <<>>
    /\ random_event_history # <<>>
    /\ thresholds # <<>>

ValidDescriptor(e) ==
    /\ 0 <= e.occurrence_probability /\ e.occurrence_probability <= SCALE
    /\ 1 <= e.min_duration_weeks
    /\ e.min_duration_weeks <= e.max_duration_weeks

\* C12: construction fails fast: a descriptor with probability outside [0,1],
\* minimum duration <= 0 or maximum < minimum, or a base capacity <= 0, gives
\* a ValueError and no simulator (no operation ever runs on it); every
\* simulator that exists has only descriptors with 0 <= p <= 1 and
\* 1 <= min <= max, and base capacity > 0, in every reachable state.
C12_FailFast ==
    /\ [](construction = "ValueError" <=>
             \/ \E i \in 1 .. Len(possible_random_events) :
                   ~ValidDescriptor(possible_random_events[i])
             \/ base_K <= 0)
    /\ [](construction = "ok" =>
             /\ \A i \in 1 .. Len(possible_random_events) :
                   ValidDescriptor(possible_random_events[i])
             /\ base_K > 0
             /\ active_random_event_details # <<>> =>
                   ValidDescriptor(active_random_event_details[1]))
    /\ [][construction = "ok" /\ construction' = "ok"]_vars

\* a construction rejected for a descriptor whose maximum duration is below
\* its minimum
C12_Witness ==
    /\ construction = "ValueError"
    /\ \E i \in 1 .. Len(possible_random_events) :
          /\ possible_random_events[i].min_duration_weeks >= 1
          /\ possible_random_events[i].max_duration_weeks
                < possible_random_events[i].min_duration_weeks

ValidEntries(lst) == { i \in 1 .. Len(lst) : lst[i].type \in {"int", "float"} }

AsStored(t) ==
    [value |-> IF t.type = "int" THEN t.t_val * SCALE ELSE t.t_val,
     name_rising |-> t.t_name_rise, name_falling |-> t.t_name_fall]

\* C13: set_thresholds replaces the list wholesale and skips invalid entries:
\* the stored list holds exactly the valid entries of the last argument (one
\* stored entry per valid entry, nothing else, nothing from an earlier list),
\* sorted ascending by value; entries after an invalid one are still
\* registered; the call leaves population, tick counter, multipliers, active
\* event and history unchanged.
C13_ThresholdsReplaced ==
    /\ [](/\ Len(thresholds) = Cardinality(ValidEntries(thresholds_list))
          /\ \A i \in ValidEntries(thresholds_list) :
                \E j \in 1 .. Len(thresholds) : thresholds[j] = AsStored(thresholds_list[i])
          /\ \A j \in 1 .. Len(thresholds) :
                \E i \in ValidEntries(thresholds_list) :
                   thresholds[j] = AsStored(thresholds_list[i])
          /\ \A i, j \in 1 .. Len(thresholds) :
                i < j => thresholds[i].value <= thresholds[j].value)
    /\ [][(thresholds' # thresholds \/ thresholds_list' # thresholds_list) =>
             UNCHANGED << P_current, week_count, E_factors,
                          active_random_event_details, random_event_history >>]_vars

\* after a tick made with another non-empty list, the list with an invalid
\* second entry is registered: the three valid entries are stored
C13_Witness ==
    /\ last.ticked
    /\ last.thresholds # <<>>
    /\ last.thresholds # thresholds
    /\ thresholds_list = ThresholdsMixed
    /\ Len(thresholds) = 3
    /\ active_random_event_details # <<>>

\* C14: a tick cannot fail and is applied atomically: every advance_one_week
\* completes and returns (population, labels); there is no error state, and
\* the tick counter, the scheduler and the population always reflect the
\* same number of completed ticks.
C14_TickCannotFail ==
    /\ last.raised = ""
    /\ week_count > 0 => /\ last.ticked
                         /\ P_current = last.returned_P

\* C15: event selection is first-match-wins in registration order: in a tick
\* where the scheduler is idle after aging, one uniform draw is made per
\* descriptor examined, in list order; the descriptor that becomes active is
\* the first whose draw is below its probability and no draw is made after
\* it; at most one descriptor is triggered and at most one history record is
\* appended per tick; if no draw succeeds the scheduler stays idle.
C15_FirstMatchWins ==
    (last.ticked \/ last.raised # "") =>
        LET sc == last.sched
            events == possible_random_events
            Below(i) == sc.draws[i] < events[i].occurrence_probability
        IN  /\ Len(sc.draws) = sc.n_random
            /\ Len(sc.history) <= Len(last.history_before) + 1
            /\ sc.aged # <<>> => sc.n_random = 0 /\ sc.selected = 0
            /\ sc.aged = <<>> =>
                  IF \E i \in 1 .. Len(events) : i <= sc.n_random /\ Below(i)
                  THEN /\ sc.selected = sc.n_random
                       /\ Below(sc.selected)
                       /\ \A i \in 1 .. sc.selected - 1 : ~Below(i)
                       /\ sc.details # <<>>
                       /\ sc.details[1] = events[sc.selected]
                       /\ sc.n_randint = 1
                       /\ Len(sc.history) = Len(last.history_before) + 1
                       /\ sc.history[Len(sc.history)].name = events[sc.selected].name
                  ELSE /\ sc.selected = 0
                       /\ sc.n_random = Len(events)
                       /\ sc.details = <<>>
                       /\ sc.n_randint = 0
                       /\ sc.history = last.history_before

\* two descriptors registered, the first triggers: the second, of probability
\* 1.0, is not examined
C15_Witness ==
    /\ last.ticked
    /\ Len(possible_random_events) = 2
    /\ possible_random_events[2].occurrence_probability = SCALE
    /\ last.sched.selected = 1
    /\ last.sched.n_random = 1

\* the first draw fails and the second descriptor is triggered
C15_WitnessSecond ==
    /\ last.ticked
    /\ last.sched.selected = 2
    /\ last.sched.n_random = 2
    /\ ~(last.sched.draws[1] < possible_random_events[1].occurrence_probability)

\* a descriptor is registered and examined, its draw fails and the scheduler
\* stays idle
C15_WitnessIdle ==
    /\ last.ticked
    /\ possible_random_events # <<>>
    /\ last.sched.aged = <<>>
    /\ last.sched.n_random = Len(possible_random_events)
    /\ last.sched.selected = 0
    /\ active_random_event_details = <<>>

Ran == last.ticked \/ last.raised # ""

WithImpacts(E, h) ==
    << Mul(E[1], h.impacts.birth), Mul(E[2], h.impacts.death), Mul(E[3], h.impacts.k) >>

\* C16: within a tick the scheduler runs before the dynamics: an instance
\* triggered at tick t with drawn duration d is the active instance, with its
\* impact multipliers in the combined factors of the delta, in exactly the
\* ticks t .. t+d-1, and is cleared by the aging step of tick t+d before that
\* tick's delta; the clearing tick equals the end_week of its history record
\* (start_week + duration) and start_week is week_count after the increment.
C16_EventWindow ==
    Ran =>
        LET w == week_count
            H == random_event_history
            sc == last.sched
            Covering == { i \in 1 .. Len(H) : H[i].start_week <= w /\ w < H[i].end_week }
        IN  /\ \A i \in Covering :
                  /\ sc.details # <<>>
                  /\ sc.details[1].name = H[i].name
                  /\ sc.details[2] = H[i].end_week - w
                  /\ ~last.calc.early_return =>
                         last.calc.combined = WithImpacts(last.E_factors, H[i])
            /\ Covering = {} =>
                  /\ sc.details = <<>>
                  /\ ~last.calc.early_return => last.calc.combined = last.E_factors
            /\ \A i \in 1 .. Len(H) :
                  H[i].end_week = w =>
                      /\ last.details_before # <<>>
                      /\ last.details_before[1].name = H[i].name
                      /\ last.details_before[2] = 1
                      /\ sc.aged = <<>>
            /\ Len(H) = Len(last.history_before) + 1 =>
                  /\ H[Len(H)].start_week = w
                  /\ H[Len(H)].end_week = w + sc.details[2]
            /\ \A i \in 1 .. Len(H) : H[i].start_week = w => i = Len(last.history_before) + 1

\* an instance triggered at tick 1 with duration 2 acted on the deltas of ticks
\* 1 and 2 and is cleared in tick 3
C16_Witness ==
    /\ last.ticked
    /\ ~last.calc.early_return
    /\ week_count = 3
    /\ random_event_history # <<>>
    /\ random_event_history[1].start_week = 1
    /\ random_event_history[1].end_week = 3
    /\ last.details_before # <<>>
    /\ last.details_before[2] = 1
    /\ last.sched.aged = <<>>

\* manual multipliers times the impacts of the active instance, if any
ManualTimesImpact(E, details) ==
    IF details = <<>> THEN E
    ELSE << RDiv(E[1] * details[1].birth_factor_impact, SCALE),
            RDiv(E[2] * details[1].death_factor_impact, SCALE),
            RDiv(E[3] * details[1].k_factor_impact, SCALE) >>

\* what the queries report in a state
C17_Queries ==
    construction = "ok" =>
        LET expected == ManualTimesImpact(E_factors, active_random_event_details)
        IN  /\ snapshot_active_combined = expected
            /\ get_current_carrying_capacity = RDiv(base_K * expected[3], SCALE)
            /\ snapshot_effective_carrying_capacity = RDiv(base_K * expected[3], SCALE)

\* what the delta computation of a tick reads
C17_TickReads ==
    (Ticks /\ ~last'.calc.early_return) =>
        last'.calc.combined = ManualTimesImpact(E_factors, active_random_event_details')

\* C17: combined factors are recomputed on every use: in every reachable state
\* each combined factor equals the current manual multiplier times the active
\* event's impact if an event is active and the manual multiplier alone if
\* idle; the capacity query and the snapshot report that value, so a
\* set_environmental_factors made during an event shows in the next query;
\* every tick's delta reads the manual multipliers current at the tick and the
\* instance the scheduler left, so it reverts to the manual ones when the
\* event ends.
C17_NeverCached == []C17_Queries /\ [][C17_TickReads]_vars

\* a manual multiplier was changed after a tick that left an event active:
\* the capacity query shows the new multiplier times the event's impact
C17_Witness ==
    /\ last.ticked
    /\ active_random_event_details # <<>>
    /\ active_random_event_details = last.sched.details
    /\ E_factors[3] # last.E_factors[3]
    /\ get_current_carrying_capacity
         = RDiv(base_K * RDiv(E_factors[3] * active_random_event_details[1].k_factor_impact,
                              SCALE), SCALE)
    /\ get_current_carrying_capacity
         # RDiv(base_K * RDiv(last.E_factors[3] * active_random_event_details[1].k_factor_impact,
                              SCALE), SCALE)

\* an instance that was not active before the step is active after it
NewInstance ==
    /\ active_random_event_details' # <<>>
    /\ \/ active_random_event_details = <<>>
       \/ active_random_event_details[2] <= 1

\* C18: the event history is append-only and tracks activations exactly: no
\* operation changes, reorders or removes an existing record; a tick appends
\* exactly one record if and only if a new instance becomes active in it and
\* none otherwise; set_environmental_factors and set_thresholds append none;
\* the appended record's name and impact multipliers are those of the
\* activated descriptor.
C18_HistoryAppendOnly ==
    [][LET H == random_event_history
           G == random_event_history'
       IN  /\ Len(G) >= Len(H)
           /\ SubSeq(G, 1, Len(H)) = H
           /\ Len(G) <= Len(H) + 1
           /\ Ticks => (Len(G) = Len(H) + 1 <=> NewInstance)
           /\ ~Ticks => G = H
           /\ Len(G) = Len(H) + 1 =>
                 LET rec == G[Len(G)]
                     e == active_random_event_details'[1]
                 IN  /\ rec.name = e.name
                     /\ rec.impacts.birth = e.birth_factor_impact
                     /\ rec.impacts.death = e.death_factor_impact
                     /\ rec.impacts.k = e.k_factor_impact]_vars

\* a second record was appended in the last tick, after the first instance
\* expired, and operations between the ticks left the first record in place
C18_Witness ==
    /\ last.ticked
    /\ Len(random_event_history) = 2
    /\ Len(last.history_before) = 1
    /\ random_event_history[1] = last.history_before[1]
    /\ random_event_history[2].name = active_random_event_details[1].name
    /\ E_factors # One

\* C19: the tick counter starts at 0, increases by exactly 1 on every
\* advance_one_week, also at population 0 where the delta is 0, and is left
\* unchanged by set_environmental_factors and set_thresholds; get_week_count
\* returns it, so after n ticks it returns n.  A step that is not a step of
\* one of the two setters is a step of advance_one_week.
C19_TickCounter ==
    /\ get_week_count = 0
    /\ [][IF set_environmental_factors \/ set_thresholds
          THEN get_week_count' = get_week_count
          ELSE get_week_count' = get_week_count + 1]_vars

\* the second tick of a simulation at population 0: the delta is 0 and the
\* counter reads 2
C19_Witness ==
    /\ last.ticked
    /\ last.P_previous = 0
    /\ last.calc.early_return
    /\ last.calc.result = 0
    /\ get_week_count = 2

\* C20: whenever an instance is active its remaining duration r satisfies
\* 1 <= r <= max_duration_weeks of its descriptor; in the tick that activates
\* it min_duration_weeks <= r <= max_duration_weeks; get_active_random_event
\* never reports a remaining duration of 0 or less and reports absence exactly
\* when no instance is active.
C20_RemainingDuration ==
    LET d == active_random_event_details
        sc == last.sched
        reported == get_active_random_event
    IN  /\ d # <<>> => 1 <= d[2] /\ d[2] <= d[1].max_duration_weeks
        /\ (Ran /\ sc.aged = <<>> /\ sc.details # <<>>) =>
               /\ d = sc.details
               /\ d[1].min_duration_weeks <= d[2]
               /\ d[2] <= d[1].max_duration_weeks
        /\ reported = <<>> <=> d = <<>>
        /\ reported # <<>> => /\ reported[2] >= 1
                              /\ reported[1] = d[1].name
                              /\ reported[2] = d[2]

\* an instance activated in the last tick with the longest duration its
\* descriptor allows
C20_Witness ==
    /\ last.ticked
    /\ last.sched.aged = <<>>
    /\ active_random_event_details # <<>>
    /\ active_random_event_details[1].min_duration_weeks
         < active_random_event_details[1].max_duration_weeks
    /\ active_random_event_details[2] = active_random_event_details[1].max_duration_weeks
    /\ get_active_random_event = << active_random_event_details[1].name,
                                    active_random_event_details[1].max_duration_weeks >>

\* an instance in its last week: one week remains
C20_WitnessLastWeek ==
    /\ last.ticked
    /\ last.sched.aged # <<>>
    /\ get_active_random_event # <<>>
    /\ get_active_random_event[2] = 1

\* a tick of the claim's case: no noise, a positive population at or above
\* the clamped capacity, non-negative base death rate and combined death
\* multiplier
AtOrAboveCapacity ==
    /\ Ran
    /\ S_factor = 0
    /\ last.P_previous > 0
    /\ last.P_previous >= last.calc.current_K
    /\ d_base >= 0
    /\ last.calc.combined[2] >= 0

\* C21: at or above capacity the density-driven birth contribution is zero:
\* in a tick with stochasticity factor 0, population P > 0, P >= the clamped
\* capacity and non-negative base death rate and combined death multiplier,
\* the effective birth rate is 0 whatever the base birth rate and the combined
\* birth multiplier, the delta is <= 0 and the population after the tick is
\* <= the population before it.
C21_NoGrowthAtCapacity ==
    AtOrAboveCapacity =>
        /\ last.calc.density_birth_modifier = 0
        /\ last.calc.b_eff = 0
        /\ last.calc.n_normalvariate = 0
        /\ last.calc.result <= 0
        /\ last.ticked => /\ last.P_new <= last.P_previous
                          /\ last.returned_P <= last.P_previous
        /\ P_current <= last.P_previous

\* a tick far above capacity with a positive base birth rate and a combined
\* birth multiplier above 1.0: the population falls
C21_Witness ==
    /\ AtOrAboveCapacity
    /\ last.ticked
    /\ b_base > 0
    /\ last.calc.combined[1] > SCALE
    /\ last.P_previous > last.calc.current_K
    /\ last.calc.result < 0
    /\ P_current < last.P_previous

\* a tick exactly at capacity
C21_WitnessAtCapacity ==
    /\ AtOrAboveCapacity
    /\ last.ticked
    /\ b_base > 0
    /\ last.P_previous = last.calc.current_K

\* the registered descriptors a history record can come from
DescriptorsOf(rec) ==
    { i \in 1 .. Len(possible_random_events) :
          possible_random_events[i].name = rec.name }

\* C22: the intervals recorded in the event history never overlap and are in
\* chronological order: for consecutive records e, e' the start_week of e' is
\* >= the end_week of e; every record has start_week >= 1 and a length
\* end_week - start_week between min_duration_weeks and max_duration_weeks of
\* its descriptor.
C22_HistoryIntervals ==
    LET H == random_event_history
    IN  /\ \A i \in 1 .. Len(H) - 1 : H[i + 1].start_week >= H[i].end_week
        /\ \A i \in 1 .. Len(H) :
              /\ H[i].start_week >= 1
              /\ H[i].start_week <= week_count
              /\ DescriptorsOf(H[i]) # {}
              /\ \A j \in DescriptorsOf(H[i]) :
                    LET e == possible_random_events[j]
                        length == H[i].end_week - H[i].start_week
                    IN  e.min_duration_weeks <= length /\ length <= e.max_duration_weeks

\* an instance of two weeks expired and its successor was selected in the
\* same tick: the second record starts where the first ends
C22_Witness ==
    /\ Len(random_event_history) >= 2
    /\ random_event_history[1].end_week - random_event_history[1].start_week = 2
    /\ random_event_history[2].start_week = random_event_history[1].end_week

\* the entries threshold i appended in the tick that leads to the next state
EmittedBy(i) ==
    { j \in 1 .. Len(last'.triggered) : last'.triggered[j].by = i }

\* a tick that returns, in a run whose threshold list is the constructor's
FixedListTick ==
    /\ Ticks
    /\ last'.ticked
    /\ emitted # <<>>
    /\ emitted' # <<>>

\* C23: for a fixed threshold list (no set_thresholds call during the run) the
\* labels each threshold (v, R, F) emits strictly alternate between R and F
\* over any sequence of ticks; the first emission is R if the initial
\* population is < v and F if it is >= v; a tick that lands exactly on v from
\* above emits nothing and the following drop below v emits F once.
C23_Alternation ==
    [][FixedListTick =>
          \A i \in 1 .. Len(thresholds) :
              LET v == thresholds[i].value
              IN  /\ \A j, k \in EmittedBy(i) : j = k
                  /\ \A j \in EmittedBy(i) :
                        LET rec == last'.triggered[j]
                        IN  /\ rec.dir \in { "rising", "falling" }
                            /\ rec.label = IF rec.dir = "rising"
                                           THEN thresholds[i].name_rising
                                           ELSE thresholds[i].name_falling
                            /\ last'.triggered_events[j] = rec.label
                            /\ IF emitted[i] = "none"
                               THEN rec.dir = IF initial_population < v
                                              THEN "rising" ELSE "falling"
                               ELSE rec.dir # emitted[i]
                  /\ (P_current > v /\ P_current' = v) => EmittedBy(i) = {}
                  /\ (P_current = v /\ P_current' < v) =>
                        \E j \in EmittedBy(i) : last'.triggered[j].dir = "falling"]_vars

\* the population started above v, landed exactly on v in the first tick
\* without an emission, and the drop of the second tick emitted F, the first
\* emission of that threshold
C23_Witness ==
    /\ emitted # <<>>
    /\ last.ticked
    /\ week_count = 2
    /\ \E i \in 1 .. Len(thresholds) :
          /\ initial_population > thresholds[i].value
          /\ last.P_previous = thresholds[i].value
          /\ P_current < thresholds[i].value
          /\ emitted[i] = "falling"
          /\ \E j \in 1 .. Len(last.triggered) :
                /\ last.triggered[j].by = i
                /\ last.triggered_events[j] = thresholds[i].name_falling

\* a threshold emitted R and, in a later tick, F
C23_WitnessAlternates ==
    /\ emitted # <<>>
    /\ last.ticked
    /\ \E i \in 1 .. Len(thresholds) :
          /\ initial_population < thresholds[i].value
          /\ emitted[i] = "falling"
          /\ \E j \in 1 .. Len(last.triggered) : last.triggered[j].by = i

\* a single registered descriptor, of occurrence probability 1.0
SingleCertainDescriptor ==
    /\ construction = "ok"
    /\ Len(possible_random_events) = 1
    /\ possible_random_events[1].occurrence_probability = SCALE

\* after every tick an event is reported
C24_ActiveAfterTick ==
    (SingleCertainDescriptor /\ week_count >= 1) =>
        /\ get_active_random_event # <<>>
        /\ get_active_random_event[1] = possible_random_events[1].name
        /\ get_active_random_event[2] >= 1

\* the tick in which the reported instance expires reports its successor
C24_Succession ==
    (SingleCertainDescriptor /\ Ticks /\ get_active_random_event # <<>>) =>
        IF get_active_random_event[2] = 1
        THEN /\ last'.sched.aged = <<>>
             /\ last'.sched.n_randint = 1
             /\ Len(random_event_history') = Len(random_event_history) + 1
             /\ get_active_random_event'[2] =
                   LET rec == random_event_history'[Len(random_event_history')]
                   IN  rec.end_week - rec.start_week
             /\ get_active_random_event'[2] >= possible_random_events[1].min_duration_weeks
             /\ get_active_random_event'[2] <= possible_random_events[1].max_duration_weeks
        ELSE /\ last'.sched.n_randint = 0
             /\ get_active_random_event'[2] = get_active_random_event[2] - 1

\* C24: an expiring event can be succeeded in the same tick: with a single
\* registered descriptor of occurrence probability 1.0, get_active_random_event
\* reports an active event after every advance_one_week from the first tick
\* on, and in the tick in which an instance expires the reported remaining
\* duration goes from 1 to the freshly drawn duration of the new instance.
C24_NeverIdleAfterTick == []C24_ActiveAfterTick /\ [][C24_Succession]_vars

\* an instance with one week left expired in the last tick and the report
\* shows its successor, drawn with two weeks
C24_Witness ==
    /\ SingleCertainDescriptor
    /\ Ran
    /\ last.details_before # <<>>
    /\ last.details_before[2] = 1
    /\ last.sched.aged = <<>>
    /\ last.sched.n_randint = 1
    /\ get_active_random_event = << possible_random_events[1].name, 2 >>

====
